---- MODULE Spec2Model ----
(***************************************************************************)
(* KindlePDF: the reflow pagination engine of the PDF handler              *)
(* (src/unnamed/part_001), the offset locator, and the bookmark flow of    *)
(* the application (src/js/app.js, src/js/storage.js).                     *)
(*                                                                         *)
(* Text is a sequence of one-character strings.  Character classes:         *)
(*   "A"  an uppercase letter      "a"  a lowercase letter                 *)
(*   "."  a full stop              "1"  a digit (neither letter nor space) *)
(*   " "  a space                  "\n" a line break                       *)
(*                                                                         *)
(* JavaScript numbers that can be fractional (charsPerPage, breakPoint,    *)
(* currentSplitStart, a page's start and end) are fixed-point integers in  *)
(* units of 1/Scale: charsPerPage is a product of integers with 0.85 =     *)
(* 17/20, so every value the engine computes is a multiple of 1/20.  The   *)
(* model computes them exactly; IEEE rounding of the same sums is not      *)
(* modelled.                                                               *)
(***************************************************************************)
EXTENDS Integers, Sequences, FiniteSets, TLC

\* ------------------------------------------------------------------ bounds
\* The longest source document, in source pages.
MaxBlocks == 2
\* The most bookmarks the store holds at a time.
MaxBookmarks == 1
\* The reader's font controls are followed this many zoom steps above the
\* default size.
MaxZoom == 2
\* The longest page list the locators are called on by themselves.
MaxPages == 2
\* The most extractAllText calls that are suspended at the same time.
MaxTasks == 2

\* ---------------------------------------------------------------- constants
\* Denominator of the fixed-point numbers: 0.85 = FillRate / Scale.
Scale == 20
FillRate == 17
MinCharsPerPage == 100
ParagraphSpacing == 50
MinBlockLength == 10
MinPageLength == 5
TitleMaxLength == 100
TitleMinLetters == 3
LocatorTolerance == 1000
MinFontSize == 12
MaxFontSize == 32
HeightMargin == 80
WidthMargin == 100
MaxContainerWidth == 700
ReservedLines == 2

\* ------------------------------------------------------------- string model
Max(a, b) == IF a >= b THEN a ELSE b
Min(a, b) == IF a <= b THEN a ELSE b

SetMax(S) == CHOOSE x \in S : \A y \in S : y <= x
SetMin(S) == CHOOSE x \in S : \A y \in S : x <= y

Rep(c, n) == [i \in 1..n |-> c]

\* JavaScript \s, restricted to the characters of the model.
IsSpace(c) == c \in {" ", "\n"}

\* String.prototype.trim
Trim(s) ==
    IF \A i \in 1..Len(s) : IsSpace(s[i]) THEN <<>>
    ELSE LET first == CHOOSE i \in 1..Len(s) :
                          ~IsSpace(s[i]) /\ \A j \in 1..(i - 1) : IsSpace(s[j])
             last == CHOOSE i \in 1..Len(s) :
                         ~IsSpace(s[i]) /\ \A j \in (i + 1)..Len(s) : IsSpace(s[j])
         IN  SubSeq(s, first, last)

\* s.replace(/\s+/g, ' '): every maximal run of whitespace becomes one space.
StartsRun(e) == ~IsSpace(e.c) \/ ~e.afterSpace
CollapseSpaces(s) ==
    LET marked == [i \in 1..Len(s) |->
                      [c |-> s[i], afterSpace |-> i > 1 /\ IsSpace(s[i - 1])]]
        kept == SelectSeq(marked, StartsRun)
    IN  [i \in 1..Len(kept) |-> IF IsSpace(kept[i].c) THEN " " ELSE kept[i].c]

\* pat occurs in s at the 0-based index k.
MatchAt(s, pat, k) ==
    /\ k >= 0
    /\ k + Len(pat) <= Len(s)
    /\ \A j \in 1..Len(pat) : s[k + j] = pat[j]

\* String.prototype.indexOf(pat, from), 0-based, -1 when absent.
IndexOf(s, pat, from) ==
    LET hits == {k \in Max(from, 0)..(Len(s) - Len(pat)) : MatchAt(s, pat, k)}
    IN  IF hits = {} THEN -1 ELSE SetMin(hits)

\* String.prototype.lastIndexOf(pat, pos), 0-based: the last occurrence that
\* starts at or before pos (pos already truncated to an integer; a negative
\* pos counts as 0).
LastIndexOf(s, pat, pos) ==
    LET hits == {k \in 0..Min(Max(pos, 0), Len(s) - Len(pat)) : MatchAt(s, pat, k)}
    IN  IF hits = {} THEN -1 ELSE SetMax(hits)

\* String.prototype.substring(from, to) with 0-based integer arguments.
Substring(s, from, to) ==
    LET a == Max(0, Min(from, Len(s)))
        b == Max(0, Min(to, Len(s)))
    IN  SubSeq(s, Min(a, b) + 1, Max(a, b))

\* Array.prototype.join
RECURSIVE Join(_, _)
Join(parts, sep) ==
    IF parts = <<>> THEN <<>>
    ELSE IF Len(parts) = 1 THEN parts[1]
    ELSE parts[1] \o sep \o Join(Tail(parts), sep)

\* String.prototype.split(sep) for a non-empty separator.
RECURSIVE SplitOn(_, _)
SplitOn(s, sep) ==
    LET k == IndexOf(s, sep, 0)
    IN  IF k = -1 THEN <<s>>
        ELSE <<SubSeq(s, 1, k)>> \o SplitOn(SubSeq(s, k + Len(sep) + 1, Len(s)), sep)

RECURSIVE Concat(_)
Concat(parts) == IF parts = <<>> THEN <<>> ELSE parts[1] \o Concat(Tail(parts))

SingleDelimiter == <<"\n">>
ParagraphDelimiter == <<"\n", "\n">>

\* Truncation of a non-negative fixed-point number to an integer, as
\* substring and lastIndexOf truncate their arguments.
Trunc(x) == IF x >= 0 THEN x \div Scale ELSE -((-x) \div Scale)


\* ------------------------------------------------------------ source pages
\* The text pdf.js yields for one source page, as extractAllText assembles it
\* before clean-up: items followed by a space, "\n" where the baseline moves.
RawTitle == Rep("A", 7) \o <<" ">> \o Rep("A", 3) \o <<" ">>
RawBody == Rep("a", 19) \o <<".", " ", "\n">> \o Rep("a", 19) \o <<".", " ">>
RawLongWords ==
    Rep("a", 100) \o <<".", " ", "\n">> \o Rep("a", 60) \o <<" ">> \o Rep("a", 80) \o <<" ">>
RawLongSolid == Rep("a", 205) \o <<" ">>
RawPageNumber == <<"1", "1", " ">>

RawPages == {RawTitle, RawBody, RawLongWords, RawLongSolid, RawPageNumber}

RECURSIVE SeqsUpTo(_, _)
SeqsUpTo(S, n) ==
    IF n = 0 THEN {<<>>}
    ELSE LET shorter == SeqsUpTo(S, n - 1)
         IN  shorter \cup {Append(d, x) : d \in {e \in shorter : Len(e) = n - 1}, x \in S}

\* The documents: every sequence of 1..MaxBlocks source pages.
Documents == SeqsUpTo(RawPages, MaxBlocks) \ {<<>>}

\* ---------------------------------------------------------- extractAllText
\* The clean-up of one page's text.  After /\s+/ -> ' ' no "\n" is left, so
\* the second replace, /\n\s+/ -> '\n\n', matches nothing.
CleanPageText(raw) == Trim(CollapseSpaces(raw))

\* extractAllText: the cleaned text of every source page that is longer than
\* MinBlockLength, in source order.
RECURSIVE ExtractedBlocks(_)
ExtractedBlocks(doc) ==
    IF doc = <<>> THEN <<>>
    ELSE LET pageText == CleanPageText(doc[1])
         IN  (IF Len(pageText) > MinBlockLength THEN <<pageText>> ELSE <<>>)
             \o ExtractedBlocks(Tail(doc))

\* ------------------------------------------------------------------ budget
ContainerHeight(clientH) == clientH - HeightMargin
ContainerWidth(clientW) == Min(MaxContainerWidth, clientW - WidthMargin)

\* Math.floor(containerWidth / (fontSize * 0.55))
CharsPerLine(clientW, fs) == (ContainerWidth(clientW) * 100) \div (fs * 55)

\* Math.floor(containerHeight / (fontSize * lineHeight)) - 2, lineHeight in tenths
LinesPerPage(clientH, fs, lh) == ((ContainerHeight(clientH) * 10) \div (fs * lh)) - ReservedLines

\* charsPerLine * linesPerPage * 0.85, in units of 1/Scale
ComputedBudget(clientW, clientH, fs, lh) ==
    CharsPerLine(clientW, fs) * LinesPerPage(clientH, fs, lh) * FillRate

\* The budget of the earlier revision: no floor.
UnflooredCharsPerPage(clientW, clientH, fs, lh) == ComputedBudget(clientW, clientH, fs, lh)

\* Math.max(100, charsPerLine * linesPerPage * 0.85), in units of 1/Scale
CharsPerPage(clientW, clientH, fs, lh) ==
    Max(MinCharsPerPage * Scale, ComputedBudget(clientW, clientH, fs, lh))

\* -------------------------------------------------------------- paragraphs
IsLetter(c) == c \in {"a", "A"}
IsUpper(c) == c = "A"

\* isTitleText: more than 70 % of the letters are uppercase, at least three
\* letters, and the text is shorter than 100 characters.
isTitleText(text) ==
    LET cleaned == {i \in 1..Len(text) : IsLetter(text[i])}
        upperCount == Cardinality({i \in cleaned : IsUpper(text[i])})
    IN  /\ Cardinality(cleaned) >= TitleMinLetters
        /\ upperCount * 10 > 7 * Cardinality(cleaned)
        /\ Len(text) < TitleMaxLength

\* The loop over rawParagraphs: [paragraphs, searchIndex] after the raw
\* paragraphs rest have been scanned.
RECURSIVE ScanParagraphs(_, _, _)
ScanParagraphs(rest, acc, searchIndex) ==
    IF rest = <<>> THEN [paragraphs |-> acc, searchIndex |-> searchIndex]
    ELSE LET p == rest[1]
             trimmed == Trim(p)
         IN  IF trimmed = <<>>
             THEN ScanParagraphs(Tail(rest), acc, searchIndex + Len(p) + 2)
             ELSE ScanParagraphs(
                      Tail(rest),
                      Append(acc, [text |-> trimmed, start |-> searchIndex,
                                   length |-> Len(trimmed)]),
                      searchIndex + Len(p) + 2)

FullText(blocks) == Join(blocks, ParagraphDelimiter)

BuildParagraphs(blocks) == ScanParagraphs(SplitOn(FullText(blocks), ParagraphDelimiter), <<>>, 0)


\* ------------------------------------------------------------------- state
VARIABLES
    \* PDFHandler (src/unnamed/part_001, lines 8-20)
    pdfDoc,                 \* the open document: its source pages' raw text
    currentPage,
    totalPages,
    totalScreenPages,
    currentScreenPage,
    currentBookId,
    extractedText,
    paginatedContent,
    fontSize,
    lineHeight,             \* in tenths: 18 is 1.8
    \* the viewport: container.parentElement.clientWidth / clientHeight
    clientWidth,
    clientHeight,
    \* the running renderTextContent / paginateContent call
    pc,
    caller,                 \* the handler that awaits renderTextContent
    charsPerPage,           \* in units of 1/Scale
    paragraphs,
    searchIndex,
    paraIdx,                \* position of the for-of loop over paragraphs
    currentPageContent,
    currentPageOffsetStart, \* in units of 1/Scale; NoOffset is -1
    currentCharCount,
    currentSplitStart,      \* in units of 1/Scale
    remaining,
    \* App (src/js/app.js) and Storage (src/js/storage.js)
    currentBook,            \* the id of the open book, NoBook in the library
    books,                  \* the books store: id -> [data, totalPages, currentPage]
    bookmarks,              \* the bookmarks store, in insertion order
    pendingGoTo,            \* the page of openBook's setTimeout, 0 if none
    notes,                  \* the notes store, in insertion order
    settings,               \* the settings store: key -> value
    \* history variables
    anchors,                \* bookmark id -> what was displayed at its creation
    clicked,                \* the id of the bookmark whose click is handled, 0 if none
    firstRun,               \* the first finished paginateContent run
    recording,              \* whether firstRun is recorded
    navigated,              \* the page whose progress goToPage saved last, 0 if none
    beforeEnd,              \* what paginateContent had before its filter and clamp
    shownOffset,            \* the start of the page shown when the font size was
                            \* changed, NoOffset once the change is complete
    \* extractAllText calls suspended at an await, in call order
    tasks,
    \* a call of a locator or classifier made on its own, and what it returned
    call,
    result

handlerVars ==
    <<pdfDoc, currentPage, totalPages, totalScreenPages, currentScreenPage,
      currentBookId, extractedText, paginatedContent, fontSize, lineHeight>>
viewVars == <<clientWidth, clientHeight>>
frameVars ==
    <<charsPerPage, paragraphs, searchIndex, paraIdx, currentPageContent,
      currentPageOffsetStart, currentCharCount, currentSplitStart, remaining>>
storeVars == <<notes, settings>>
appVars == <<currentBook, books, bookmarks, pendingGoTo, storeVars>>
markVars == <<anchors, clicked>>
probeVars == <<call, result>>
runVars == <<firstRun, recording, navigated, beforeEnd, shownOffset, tasks, probeVars>>
vars == <<handlerVars, viewVars, pc, caller, frameVars, appVars, markVars, runVars>>

NoOffset == -1 * Scale

\* The default font size and line height (tenths) of the handler.
DefaultFontSize == 18
DefaultLineHeight == 18
MinLineHeight == 12
MaxLineHeight == 25

\* Viewports (clientWidth, clientHeight): one too low for a single line of
\* text, and one of a small phone.
Viewports == {<<300, 100>>, <<300, 480>>}
FontSizeInputs == {18, 20}
LineHeightInputs == {18, 25}
SliderInputs == {22}
ZoomInputs == {-2, 2}
ReaderFontSizes == {DefaultFontSize + 2 * k : k \in 0..MaxZoom}
PageInputs == {1, 3}

\* Lines 433, 440: the length of a snippet, and the shortest one searched for.
SnippetLength == 150
MinSnippetLength == 10

\* ---------------------------------------------------------- paginateContent
Page(content, start, end) == [content |-> content, start |-> start, end |-> end]

\* Line 92: the page list is rebuilt from nothing.
KeptPages(old) == old
ResetPages(old) == <<>>

\* Lines 145, 157: the accumulator is flushed before a title, and before a
\* paragraph that would overflow the budget.
NoBreak(isTitle, content) == FALSE
TitleBreak(isTitle, content) == isTitle /\ content # <<>>
OverflowBreak(count, length, cpp, content) ==
    (count + length) * Scale > cpp /\ content # <<>>

\* Line 169
IsOversize(length, cpp) == length * Scale > cpp

\* Lines 169, 215-218: an oversize paragraph is split and leaves the
\* accumulator alone; any other paragraph is appended to it.
AlwaysAccumulated(content, text, oversize) == Append(content, text)
Accumulated(content, text, oversize) ==
    IF oversize THEN content ELSE Append(content, text)

\* Line 208: the offset of the next chunk.
SameSplitStart(splitStart, breakPoint) == splitStart
NextSplitStart(splitStart, breakPoint) == splitStart + breakPoint

\* Lines 186-195: where the remaining text is cut, in units of 1/Scale.
BreakPoint(rem, cpp) ==
    LET hard == Min(Len(rem) * Scale, cpp)
    IN  IF hard < Len(rem) * Scale
        THEN LET sentenceEnd == LastIndexOf(rem, <<".", " ">>, Trunc(hard))
                 wordBreak == LastIndexOf(rem, <<" ">>, Trunc(hard))
             IN  IF sentenceEnd * Scale * 2 > cpp THEN (sentenceEnd + 1) * Scale
                 ELSE IF wordBreak * Scale * 2 > cpp THEN wordBreak * Scale
                 ELSE hard
        ELSE hard

\* Lines 197-209: one iteration of the split loop.
SplitStep(rem, splitStart, cpp) ==
    LET breakPoint == BreakPoint(rem, cpp)
        chunk == Trim(Substring(rem, 0, Trunc(breakPoint)))
    IN  [pages |-> IF chunk # <<>>
                   THEN <<Page(<<chunk>>, splitStart, splitStart + Len(chunk) * Scale)>>
                   ELSE <<>>,
         splitStart |-> NextSplitStart(splitStart, breakPoint),
         remaining |-> Trim(Substring(rem, Trunc(breakPoint), Len(rem)))]

\* Line 231: p.content.join('').length > 5
KeepNonEmpty(p) == Len(Concat(p.content)) > 0
KeepPage(p) == Len(Concat(p.content)) > MinPageLength

\* Line 233: totalScreenPages = paginatedContent.length
AtLeastOnePage(pages) == Max(1, Len(pages))
PageCount(pages) == Len(pages)

\* Lines 235-236
NoClamp(current, total) == current
ClampPage(current, total) ==
    LET c == IF current > total THEN total ELSE current
    IN  IF c < 1 THEN 1 ELSE c


NoDoc == <<>>
NoBook == 0
NoRun == [pages |-> <<>>]
NoCall == [fn |-> "none"]
NoEnd == [index |-> 0, pages |-> <<>>]
Resting == pc \in {"idle", "done"}

FrameReset ==
    /\ charsPerPage' = 0
    /\ paragraphs' = <<>>
    /\ searchIndex' = 0
    /\ paraIdx' = 0
    /\ currentPageContent' = <<>>
    /\ currentPageOffsetStart' = NoOffset
    /\ currentCharCount' = 0
    /\ currentSplitStart' = 0
    /\ remaining' = <<>>

\* The handler at rest with a page list.
HandlerWith(doc, bookId, pages) ==
    /\ pdfDoc = doc
    /\ currentPage = 1
    /\ totalPages = Len(doc)
    /\ totalScreenPages = Len(pages)
    /\ currentScreenPage = 1
    /\ currentBookId = bookId
    /\ extractedText = <<>>
    /\ paginatedContent = pages
    /\ fontSize = DefaultFontSize
    /\ lineHeight = DefaultLineHeight
    /\ pc = "idle"
    /\ caller = "none"
    /\ charsPerPage = 0
    /\ paragraphs = <<>>
    /\ searchIndex = 0
    /\ paraIdx = 0
    /\ currentPageContent = <<>>
    /\ currentPageOffsetStart = NoOffset
    /\ currentCharCount = 0
    /\ currentSplitStart = 0
    /\ remaining = <<>>

\* The handler's state after construction (doc = NoDoc) or after the first
\* loadPDF(doc, bookId).
HandlerState(doc, bookId) == HandlerWith(doc, bookId, <<>>)

\* renderTextContent (lines 240-248): extract first if nothing is extracted.
RenderEntry(text) == IF text = <<>> THEN "extract" ELSE "paginate"

\* Where renderTextContent returns to: goToPage goes on to save the progress
\* (lines 369-374), openBook to its timer (app.js, lines 270-276).
AfterRender(from) ==
    IF from \in {"goToPage", "nextPage", "prevPage", "bookmark", "restore"}
    THEN "progress"
    ELSE IF from = "openBook" THEN "opened"
    ELSE IF from = "font" THEN "fontDone"
    ELSE "done"

\* A renderTextContent call made on its own.
Render ==
    /\ Resting
    /\ pdfDoc # NoDoc
    /\ pc' = RenderEntry(extractedText)
    /\ caller' = "none"
    /\ UNCHANGED <<handlerVars, viewVars, frameVars, appVars, markVars, runVars>>

\* extractAllText (lines 43-77)
ExtractAllText ==
    /\ pc = "extract"
    /\ extractedText' = ExtractedBlocks(pdfDoc)
    /\ pc' = "paginate"
    /\ UNCHANGED <<pdfDoc, currentPage, totalPages, totalScreenPages, currentScreenPage,
                   currentBookId, paginatedContent, fontSize, lineHeight, viewVars,
                   caller, frameVars, appVars, markVars, runVars>>

\* paginateContent, lines 80-135: the budget, the reset, the paragraphs.
PaginateBegin ==
    /\ pc = "paginate"
    /\ charsPerPage' = CharsPerPage(clientWidth, clientHeight, fontSize, lineHeight)
    /\ paginatedContent' = ResetPages(paginatedContent)
    /\ LET built == BuildParagraphs(extractedText)
       IN  /\ paragraphs' = built.paragraphs
           /\ searchIndex' = built.searchIndex
    /\ paraIdx' = 1
    /\ currentPageContent' = <<>>
    /\ currentPageOffsetStart' = NoOffset
    /\ currentCharCount' = 0
    /\ beforeEnd' = NoEnd
    /\ pc' = "para"
    /\ UNCHANGED <<pdfDoc, currentPage, totalPages, totalScreenPages, currentScreenPage,
                   currentBookId, extractedText, fontSize, lineHeight, viewVars, caller,
                   currentSplitStart, remaining, appVars, markVars, firstRun, recording, shownOffset,
                   navigated, tasks, probeVars>>

\* paginateContent, lines 137-183 and 215-218: one paragraph of the loop, up
\* to the split loop if the paragraph is oversize.
ParagraphStep ==
    /\ pc = "para"
    /\ paraIdx <= Len(paragraphs)
    /\ LET p == paragraphs[paraIdx]
           start == p.start * Scale
           off0 == IF currentPageOffsetStart = NoOffset THEN start
                   ELSE currentPageOffsetStart
           tb == TitleBreak(isTitleText(p.text), currentPageContent)
           pages1 == IF tb
                     THEN Append(paginatedContent,
                                 Page(currentPageContent, off0, start - Scale))
                     ELSE paginatedContent
           content1 == IF tb THEN <<>> ELSE currentPageContent
           count1 == IF tb THEN 0 ELSE currentCharCount
           off1 == IF tb THEN start ELSE off0
           ob == OverflowBreak(count1, p.length, charsPerPage, content1)
           pages2 == IF ob THEN Append(pages1, Page(content1, off1, start - Scale))
                     ELSE pages1
           content2 == IF ob THEN <<>> ELSE content1
           count2 == IF ob THEN 0 ELSE count1
           off2 == IF ob THEN start ELSE off1
           oversize == IsOversize(p.length, charsPerPage)
           fl == oversize /\ content2 # <<>>
           pages3 == IF fl THEN Append(pages2, Page(content2, off2, start - Scale))
                     ELSE pages2
           content3 == IF fl THEN <<>> ELSE content2
           count3 == IF fl THEN 0 ELSE count2
       IN  /\ paginatedContent' = pages3
           /\ currentPageContent' = Accumulated(content3, p.text, oversize)
           /\ currentPageOffsetStart' = off2
           /\ IF oversize
              THEN /\ currentCharCount' = count3
                   /\ currentSplitStart' = start
                   /\ remaining' = p.text
                   /\ paraIdx' = paraIdx
                   /\ pc' = "split"
              ELSE /\ currentCharCount' = count3 + p.length + ParagraphSpacing
                   /\ paraIdx' = paraIdx + 1
                   /\ pc' = "para"
                   /\ UNCHANGED <<currentSplitStart, remaining>>
    /\ UNCHANGED <<pdfDoc, currentPage, totalPages, totalScreenPages, currentScreenPage,
                   currentBookId, extractedText, fontSize, lineHeight, viewVars, caller,
                   charsPerPage, paragraphs, searchIndex, appVars, markVars, runVars>>

\* paginateContent, lines 185-210: one iteration of the split loop.
SplitIter ==
    /\ pc = "split"
    /\ Len(remaining) > 0
    /\ LET r == SplitStep(remaining, currentSplitStart, charsPerPage)
       IN  /\ paginatedContent' = paginatedContent \o r.pages
           /\ currentSplitStart' = r.splitStart
           /\ remaining' = r.remaining
    /\ UNCHANGED <<pdfDoc, currentPage, totalPages, totalScreenPages, currentScreenPage,
                   currentBookId, extractedText, fontSize, lineHeight, viewVars, pc,
                   caller, charsPerPage, paragraphs, searchIndex, paraIdx,
                   currentPageContent, currentPageOffsetStart, currentCharCount,
                   appVars, markVars, runVars>>

\* paginateContent, lines 185 and 212-213: the split loop ends.
SplitExit ==
    /\ pc = "split"
    /\ Len(remaining) = 0
    /\ currentPageOffsetStart' = NoOffset
    /\ currentSplitStart' = 0
    /\ paraIdx' = paraIdx + 1
    /\ pc' = "para"
    /\ UNCHANGED <<handlerVars, viewVars, caller, charsPerPage, paragraphs, searchIndex,
                   currentPageContent, currentCharCount, remaining, appVars, markVars,
                   runVars>>

\* What a finished run is remembered by: its inputs and its result.
RunRecord(pages, index) ==
    [text |-> extractedText, width |-> clientWidth, height |-> clientHeight,
     fontSize |-> fontSize, lineHeight |-> lineHeight, pages |-> pages,
     index |-> index]

\* paginateContent, lines 221-236: the last page, the filter, the clamp.
PaginateEnd ==
    /\ pc = "para"
    /\ paraIdx > Len(paragraphs)
    /\ LET flushed ==
               IF currentPageContent # <<>> /\ currentPageOffsetStart # NoOffset
               THEN Append(paginatedContent,
                           Page(currentPageContent, currentPageOffsetStart,
                                searchIndex * Scale))
               ELSE paginatedContent
           filtered == SelectSeq(flushed, KeepPage)
           index == ClampPage(currentScreenPage, Len(filtered))
       IN  /\ paginatedContent' = filtered
           /\ totalScreenPages' = PageCount(filtered)
           /\ currentScreenPage' = index
           /\ beforeEnd' = [index |-> currentScreenPage, pages |-> flushed]
           /\ firstRun' = IF recording /\ firstRun = NoRun
                          THEN RunRecord(filtered, index)
                          ELSE firstRun
    /\ pc' = AfterRender(caller)
    /\ caller' = IF AfterRender(caller) = "done" THEN "none" ELSE caller
    /\ FrameReset
    /\ UNCHANGED <<pdfDoc, currentPage, totalPages, currentBookId, extractedText,
                   fontSize, lineHeight, viewVars, appVars, markVars, recording, shownOffset,
                   navigated, tasks, probeVars>>

\* setFontSize, line 343: Math.max(12, Math.min(32, size))
NoFontClamp(size) == size
ClampFontSize(size) == Max(MinFontSize, Min(MaxFontSize, size))

\* setFontSize (lines 342-346)
SetFontSize(size) ==
    /\ Resting
    /\ fontSize' = ClampFontSize(size)
    /\ paginatedContent' = <<>>
    /\ pc' = "idle"
    /\ UNCHANGED <<pdfDoc, currentPage, totalPages, totalScreenPages, currentScreenPage,
                   currentBookId, extractedText, lineHeight, viewVars, caller, frameVars,
                   appVars, markVars, runVars>>

\* setLineHeight (lines 349-353), in tenths
SetLineHeight(height) ==
    /\ Resting
    /\ lineHeight' = Max(MinLineHeight, Min(MaxLineHeight, height))
    /\ paginatedContent' = <<>>
    /\ pc' = "idle"
    /\ UNCHANGED <<pdfDoc, currentPage, totalPages, totalScreenPages, currentScreenPage,
                   currentBookId, extractedText, fontSize, viewVars, caller, frameVars,
                   appVars, markVars, runVars>>

\* The window is resized: the next paginateContent reads the new size.
Resize(w, h) ==
    /\ Resting
    /\ clientWidth' = w
    /\ clientHeight' = h
    /\ pc' = "idle"
    /\ UNCHANGED <<handlerVars, caller, frameVars, appVars, markVars, runVars>>

\* ----------------------------------------------------------------- locator
Abs(x) == IF x < 0 THEN -x ELSE x

\* findPageForOffset, lines 462-467: the first page whose range holds the
\* offset, from page i on; -1 if none does.
RECURSIVE FirstContaining(_, _, _)
FirstContaining(pages, offset, i) ==
    IF i > Len(pages) THEN -1
    ELSE IF offset >= pages[i].start /\ offset <= pages[i].end THEN i
    ELSE FirstContaining(pages, offset, i + 1)

\* Line 475: diff < minDiff.  best.page = -1 stands for minDiff = Infinity,
\* which both are until the first page is seen.
CloserOrEqual(diff, best) == best.page = -1 \/ diff <= best.diff
Closer(diff, best) == best.page = -1 \/ diff < best.diff

\* findPageForOffset, lines 470-479: the fallback loop, from page i on.
RECURSIVE ClosestStart(_, _, _, _)
ClosestStart(pages, offset, i, best) ==
    IF i > Len(pages) THEN best
    ELSE LET diff == Abs(pages[i].start - offset)
         IN  ClosestStart(pages, offset, i + 1,
                          IF Closer(diff, best) THEN [page |-> i, diff |-> diff]
                          ELSE best)

\* findPageForOffset (lines 459-482) for a number; offset in units of
\* 1/Scale.  Returns the 1-based page index, or -1.
findPageForOffset(pages, offset) ==
    IF offset < 0 THEN -1
    ELSE LET found == FirstContaining(pages, offset, 1)
             best == ClosestStart(pages, offset, 1, [page |-> -1, diff |-> 0])
         IN  IF found # -1 THEN found
             ELSE IF best.page # -1 /\ best.diff < LocatorTolerance * Scale THEN best.page
             ELSE -1

\* An offset argument: a number, or undefined / null.
Offset(value) == [defined |-> TRUE, value |-> value]
MissingOffset == [defined |-> FALSE]

\* findPageForOffset (line 460) for any argument
findPageForOffsetOf(pages, arg) ==
    IF ~arg.defined THEN -1 ELSE findPageForOffset(pages, arg.value)

\* ------------------------------------------------------- navigation, storage
\* getCurrentPageContentSnippet (lines 429-434)
getCurrentPageContentSnippet(pages, index) ==
    IF index \in 1..Len(pages)
    THEN Substring(Trim(CollapseSpaces(Join(pages[index].content, <<" ">>))),
                   0, SnippetLength)
    ELSE <<>>

\* findPageForContent, line 440: the length that is compared with 10.
RawLength(snippet, search) == Len(snippet)
SearchLength(snippet, search) == Len(search)

\* findPageForContent, lines 442-448: the first page, from page i on, whose
\* joined and collapsed content includes the search text; -1 if none does.
RECURSIVE FirstIncluding(_, _, _)
FirstIncluding(pages, search, i) ==
    IF i > Len(pages) THEN -1
    ELSE IF IndexOf(CollapseSpaces(Join(pages[i].content, <<" ">>)), search, 0) # -1
         THEN i
    ELSE FirstIncluding(pages, search, i + 1)

\* findPageForContent (lines 437-450): the 1-based page index, or -1.
findPageForContent(pages, snippet) ==
    LET search == Trim(CollapseSpaces(snippet))
    IN  IF snippet = <<>> THEN -1
        ELSE IF SearchLength(snippet, search) < MinSnippetLength THEN -1
        ELSE FirstIncluding(pages, search, 1)

\* getTotalPages (line 420): totalScreenPages || totalPages
getTotalPages(screenPages, pages) == IF screenPages # 0 THEN screenPages ELSE pages

\* getCurrentPageOffset (lines 454-457), in units of 1/Scale
getCurrentPageOffset(pages, index) ==
    IF index \in 1..Len(pages) THEN pages[index].start ELSE NoOffset

\* goToPage, lines 362-367: clamp, set the current page, render.
GoToPage(pageNum, from) ==
    /\ Resting
    /\ LET low == IF pageNum < 1 THEN 1 ELSE pageNum
       IN  currentScreenPage' = IF low > totalScreenPages THEN totalScreenPages ELSE low
    /\ pc' = RenderEntry(extractedText)
    /\ caller' = from
    /\ UNCHANGED <<pdfDoc, currentPage, totalPages, totalScreenPages, currentBookId,
                   extractedText, paginatedContent, fontSize, lineHeight, viewVars,
                   frameVars, runVars>>

\* goToPage, line 371: Math.ceil((currentScreenPage / totalScreenPages) * totalPages)
PdfPage(screenPage, screenPages, pages) ==
    (screenPage * pages + screenPages - 1) \div screenPages

\* Storage.updateBookProgress (storage.js, lines 115-134); a missing book
\* rejects, and goToPage swallows the rejection.
updateBookProgress(store, bookId, page) ==
    IF bookId \in DOMAIN store
    THEN [store EXCEPT ![bookId].currentPage = page]
    ELSE store

\* goToPage, line 370: currentBookId && totalScreenPages > 0
AlwaysSave(bookId, total) == TRUE
SaveWanted(bookId, total) == bookId # NoBook /\ total > 0

\* goToPage, lines 369-374: the progress is saved after the render.
SaveProgress ==
    /\ pc = "progress"
    /\ IF SaveWanted(currentBookId, totalScreenPages)
       THEN LET pdfPage == PdfPage(currentScreenPage, totalScreenPages, totalPages)
            IN  /\ currentPage' = pdfPage
                /\ books' = updateBookProgress(books, currentBookId, pdfPage)
       ELSE UNCHANGED <<currentPage, books>>
    /\ navigated' = IF SaveWanted(currentBookId, totalScreenPages)
                    THEN currentScreenPage
                    ELSE navigated
    /\ pc' = "done"
    /\ caller' = "none"
    /\ clicked' = 0
    /\ UNCHANGED <<pdfDoc, totalPages, totalScreenPages, currentScreenPage, currentBookId,
                   extractedText, paginatedContent, fontSize, lineHeight, viewVars,
                   frameVars, currentBook, bookmarks, pendingGoTo, storeVars, anchors, firstRun,
                   recording, shownOffset, beforeEnd, tasks, probeVars>>

\* nextPage (lines 377-381), prevPage (lines 383-387)
NextPage ==
    /\ pdfDoc # NoDoc
    /\ currentScreenPage < totalScreenPages
    /\ GoToPage(currentScreenPage + 1, "nextPage")
    /\ UNCHANGED <<appVars, markVars>>

PrevPage ==
    /\ pdfDoc # NoDoc
    /\ currentScreenPage > 1
    /\ GoToPage(currentScreenPage - 1, "prevPage")
    /\ UNCHANGED <<appVars, markVars>>

\* ---------------------------------------------------------------------- app
\* openBook (app.js, lines 255-268): getBook, loadPDF (part_001, lines 29-40),
\* setReadingMode (lines 390-395) up to its render.  The book is opened from
\* the library, after the timer of an earlier openBook has fired.
OpenBook(bookId) ==
    /\ Resting
    /\ currentBook = NoBook
    /\ pendingGoTo = 0
    /\ bookId \in DOMAIN books
    /\ currentBook' = bookId
    /\ currentBookId' = bookId
    /\ extractedText' = <<>>
    /\ paginatedContent' = <<>>
    /\ currentScreenPage' = 1
    /\ pdfDoc' = books[bookId].data
    /\ totalPages' = Len(books[bookId].data)
    /\ pc' = RenderEntry(<<>>)
    /\ caller' = "openBook"
    /\ navigated' = IF bookId = currentBookId THEN navigated ELSE 0
    /\ UNCHANGED <<currentPage, totalScreenPages, fontSize, lineHeight, viewVars,
                   frameVars, books, bookmarks, pendingGoTo, storeVars, markVars, firstRun,
                   recording, shownOffset, beforeEnd, tasks, probeVars>>

\* openBook (app.js, lines 270-279): the timer that restores the saved page.
OpenBookDone ==
    /\ pc = "opened"
    /\ pendingGoTo' = IF books[currentBook].currentPage > 1
                      THEN books[currentBook].currentPage
                      ELSE 0
    /\ pc' = "done"
    /\ caller' = "none"
    /\ UNCHANGED <<handlerVars, viewVars, frameVars, currentBook, books, bookmarks, storeVars,
                   markVars, runVars>>

\* openBook (app.js, line 271): the timer fires.
RestoreTimer ==
    /\ pendingGoTo > 0
    /\ GoToPage(pendingGoTo, "restore")
    /\ pendingGoTo' = 0
    /\ UNCHANGED <<currentBook, books, bookmarks, storeVars, markVars>>

\* backToLibrary (app.js, lines 287-292)
BackToLibrary ==
    /\ Resting
    /\ currentBook # NoBook
    /\ currentBook' = NoBook
    /\ UNCHANGED <<handlerVars, viewVars, pc, caller, frameVars, books, bookmarks,
                   pendingGoTo, storeVars, markVars, runVars>>

\* setFontSize (lines 342-346) followed by renderTextContent, as every font
\* control of the reader does.
RenderWithFont(size) ==
    /\ Resting
    /\ currentBook # NoBook
    /\ fontSize' = ClampFontSize(size)
    /\ shownOffset' = getCurrentPageOffset(paginatedContent, currentScreenPage)
    /\ paginatedContent' = <<>>
    /\ pc' = RenderEntry(extractedText)
    /\ caller' = "font"
    /\ navigated' = 0
    /\ call' = [fn |-> "setFontSize", size |-> size]
    /\ result' = ClampFontSize(size)
    /\ UNCHANGED <<pdfDoc, currentPage, totalPages, totalScreenPages, currentScreenPage,
                   currentBookId, extractedText, lineHeight, viewVars, frameVars,
                   appVars, markVars, firstRun, recording, beforeEnd, tasks>>

\* The font sizes the reader is taken through are those of ReaderFontSizes.
FontChange(size) ==
    /\ ClampFontSize(size) \in ReaderFontSizes
    /\ RenderWithFont(size)

\* updateFontDisplay (app.js, lines 338-344), which ends every font control.
updateFontDisplay ==
    /\ pc = "fontDone"
    /\ pc' = "done"
    /\ caller' = "none"
    /\ shownOffset' = NoOffset
    /\ call' = NoCall
    /\ result' = -1
    /\ UNCHANGED <<handlerVars, viewVars, frameVars, appVars, markVars, firstRun,
                   recording, navigated, beforeEnd, tasks>>

\* adjustFontSize (app.js, lines 318-323), from zoom-in and zoom-out
adjustFontSize(delta) == FontChange(fontSize + delta)

\* handleFontSlider (app.js, lines 325-330)
handleFontSlider(value) == FontChange(value)

\* resetFontSize (app.js, lines 332-336)
resetFontSize == FontChange(DefaultFontSize)

\* Storage.addBookmark (storage.js, lines 178-194): the record it stores.
\* loadBookmarksAndNotes keeps the list the reader shows equal to the store.
BookmarkRecord(id, bookId, page) == [id |-> id, bookId |-> bookId, page |-> page]

\* generateId (storage.js, lines 55-57): an id no stored bookmark has.
FreshId == SetMin((1..(Len(bookmarks) + 1)) \ {bookmarks[i].id : i \in 1..Len(bookmarks)})

\* addBookmark (app.js, lines 502-510): the snippet it computes is handed to
\* Storage.addBookmark, whose parameters are (bookId, page).
addBookmark ==
    /\ Resting
    /\ currentBook # NoBook
    /\ Len(bookmarks) < MaxBookmarks
    /\ bookmarks' = Append(bookmarks,
                           BookmarkRecord(FreshId, currentBook, currentScreenPage))
    /\ anchors' = [anchors EXCEPT ![FreshId] =
                      [offset |-> getCurrentPageOffset(paginatedContent, currentScreenPage),
                       fontSize |-> fontSize]]
    /\ UNCHANGED <<handlerVars, viewVars, pc, caller, frameVars, currentBook, books,
                   pendingGoTo, storeVars, clicked, runVars>>

\* renderBookmarks (app.js, line 425): bm.contentSnippet || ''
SnippetOf(bm) == IF "contentSnippet" \in DOMAIN bm THEN bm.contentSnippet ELSE <<>>

\* The bookmark click handler (app.js, lines 436-447)
TargetPage(bm, pages) ==
    LET foundPage == findPageForContent(pages, SnippetOf(bm))
    IN  IF SnippetOf(bm) # <<>> /\ foundPage # -1 THEN foundPage ELSE bm.page

ClickBookmark(i) ==
    /\ currentBook # NoBook
    /\ i \in 1..Len(bookmarks)
    /\ bookmarks[i].bookId = currentBook
    /\ GoToPage(TargetPage(bookmarks[i], paginatedContent), "bookmark")
    /\ clicked' = bookmarks[i].id
    /\ UNCHANGED <<appVars, anchors>>

\* The delete button of a bookmark (app.js, lines 450-454) and
\* Storage.deleteBookmark (storage.js, lines 211-220)
DeleteBookmark(i) ==
    /\ Resting
    /\ currentBook # NoBook
    /\ i \in 1..Len(bookmarks)
    /\ bookmarks[i].bookId = currentBook
    /\ bookmarks' = SubSeq(bookmarks, 1, i - 1) \o SubSeq(bookmarks, i + 1, Len(bookmarks))
    /\ clicked' = IF clicked = bookmarks[i].id THEN 0 ELSE clicked
    /\ UNCHANGED <<handlerVars, viewVars, pc, caller, frameVars, currentBook, books,
                   pendingGoTo, storeVars, anchors, runVars>>

\* ----------------------------------------------------------- specifications
NoAnchor == [offset |-> NoOffset, fontSize |-> 0]

\* Nothing stored, nothing open, nothing recorded.
AppState(store) ==
    /\ currentBook = NoBook
    /\ books = store
    /\ bookmarks = <<>>
    /\ pendingGoTo = 0
    /\ notes = <<>>
    /\ settings = <<>>
    /\ anchors = [id \in 1..MaxBookmarks |-> NoAnchor]
    /\ clicked = 0
    /\ firstRun = NoRun
    /\ navigated = 0
    /\ beforeEnd = NoEnd
    /\ shownOffset = NoOffset
    /\ tasks = <<>>
    /\ call = NoCall
    /\ result = -1

\* The handler with a document loaded (the state loadPDF leaves), laid out
\* under every layout.
Init ==
    /\ \E doc \in Documents : HandlerState(doc, NoBook)
    /\ \E v \in Viewports : clientWidth = v[1] /\ clientHeight = v[2]
    /\ AppState(<<>>)
    /\ recording = FALSE

Next ==
    \/ Render
    \/ ExtractAllText
    \/ PaginateBegin
    \/ ParagraphStep
    \/ SplitIter
    \/ SplitExit
    \/ PaginateEnd
    \/ \E size \in FontSizeInputs : SetFontSize(size)
    \/ \E height \in LineHeightInputs : SetLineHeight(height)
    \/ \E v \in Viewports : Resize(v[1], v[2])

Spec == Init /\ [][Next]_vars

\* The same document paginated again and again, under changing font sizes
\* and from changing current pages, with the first run on record.
GoTo(pageNum) == GoToPage(pageNum, "goToPage") /\ UNCHANGED <<appVars, markVars>>

DetInit ==
    /\ \E doc \in Documents : HandlerState(doc, NoBook)
    /\ clientWidth = 300 /\ clientHeight = 480
    /\ AppState(<<>>)
    /\ recording = TRUE

DetNext ==
    \/ Render
    \/ ExtractAllText
    \/ PaginateBegin
    \/ ParagraphStep
    \/ SplitIter
    \/ SplitExit
    \/ PaginateEnd
    \/ SaveProgress
    \/ \E size \in FontSizeInputs : SetFontSize(size)
    \/ \E pageNum \in PageInputs : GoTo(pageNum)

DetSpec == DetInit /\ [][DetNext]_vars

\* The locators and the classifier, called on their own over page lists of
\* up to MaxPages pages with increasing starts.
TitleContent == <<Rep("A", 7) \o <<" ">> \o Rep("A", 3)>>
PairContent == <<Rep("a", 12), Rep("a", 5) \o <<".">>>>
SentenceContent == <<Rep("a", 6) \o <<".", " ">> \o Rep("a", 6)>>
Contents == {TitleContent, PairContent, SentenceContent}
Ranges == {<<0, 4>>, <<10, 12>>, <<20, 30>>, <<1100, 1110>>, <<2200, 2300>>}
SamplePages == {Page(c, r[1] * Scale, r[2] * Scale) : c \in Contents, r \in Ranges}

RECURSIVE PageListsUpTo(_)
PageListsUpTo(n) ==
    IF n = 0 THEN {<<>>}
    ELSE LET shorter == PageListsUpTo(n - 1)
         IN  shorter \cup
             {Append(l, p) : l \in {s \in shorter : Len(s) = n - 1},
                             p \in SamplePages}

Increasing(pages) == \A i \in 1..(Len(pages) - 1) : pages[i].start < pages[i + 1].start
PageLists == {l \in PageListsUpTo(MaxPages) : Increasing(l)}

OffsetInputs ==
    {MissingOffset} \cup
    {Offset(o) : o \in {-1 * Scale, 0, 3 * Scale, 5 * Scale, 8 * Scale, 15 * Scale,
                        150, 999 * Scale, 1000 * Scale, 1105 * Scale, 2000 * Scale,
                        2150 * Scale, 3300 * Scale}}

SnippetInputs ==
    {<<>>,
     Rep("A", 7) \o <<" ">> \o Rep("A", 3),
     Rep("a", 7) \o <<" ">> \o Rep("a", 5),
     <<" ">> \o Rep("a", 6) \o <<".", "\n", "\n", " ">> \o Rep("a", 6) \o <<" ">>,
     Rep("a", 5) \o <<".">>,
     Rep(" ", 6) \o Rep("a", 4) \o Rep(" ", 6),
     Rep("a", 10),
     Rep("1", 10)}

TextInputs ==
    {<<"A">>, <<"A", "A">>, <<"A", "A", " ", "1", "1">>, <<"a", "A">>,
     Rep("A", 3), <<"A", "A", "a">>, Rep("A", 7) \o Rep("a", 3),
     Rep("A", 8) \o Rep("a", 3), Rep("1", 4), Rep("A", 99), Rep("A", 100),
     Rep("a", 12), Rep("A", 7) \o <<" ">> \o Rep("A", 3)}

LocateOffset(arg) ==
    /\ call' = [fn |-> "findPageForOffset", offset |-> arg]
    /\ result' = findPageForOffsetOf(paginatedContent, arg)
    /\ UNCHANGED <<handlerVars, viewVars, pc, caller, frameVars, appVars, markVars,
                   firstRun, recording, shownOffset, beforeEnd, navigated, tasks>>

LocateContent(snippet) ==
    /\ call' = [fn |-> "findPageForContent", snippet |-> snippet]
    /\ result' = findPageForContent(paginatedContent, snippet)
    /\ UNCHANGED <<handlerVars, viewVars, pc, caller, frameVars, appVars, markVars,
                   firstRun, recording, shownOffset, beforeEnd, navigated, tasks>>

Classify(text) ==
    /\ call' = [fn |-> "isTitleText", text |-> text]
    /\ result' = IF isTitleText(text) THEN 1 ELSE 0
    /\ UNCHANGED <<handlerVars, viewVars, pc, caller, frameVars, appVars, markVars,
                   firstRun, recording, shownOffset, beforeEnd, navigated, tasks>>

PureInit ==
    /\ \E pages \in PageLists : HandlerWith(NoDoc, NoBook, pages)
    /\ clientWidth = 300 /\ clientHeight = 480
    /\ AppState(<<>>)
    /\ recording = FALSE

PureNext ==
    \/ \E arg \in OffsetInputs : LocateOffset(arg)
    \/ \E snippet \in SnippetInputs : LocateContent(snippet)
    \/ \E text \in TextInputs : Classify(text)

PureSpec == PureInit /\ [][PureNext]_vars

\* The reader application over a library of one stored book.
StoredBook(doc) == [data |-> doc, totalPages |-> Len(doc), currentPage |-> 1]
Library == <<StoredBook(<<RawLongWords, RawBody>>)>>

AppInit ==
    /\ HandlerState(NoDoc, NoBook)
    /\ clientWidth = 300 /\ clientHeight = 480
    /\ AppState(Library)
    /\ recording = FALSE

AppNext ==
    \/ \E bookId \in DOMAIN Library : OpenBook(bookId)
    \/ ExtractAllText
    \/ PaginateBegin
    \/ ParagraphStep
    \/ SplitIter
    \/ SplitExit
    \/ PaginateEnd
    \/ OpenBookDone
    \/ RestoreTimer
    \/ SaveProgress
    \/ NextPage
    \/ PrevPage
    \/ BackToLibrary
    \/ \E delta \in ZoomInputs : adjustFontSize(delta)
    \/ \E value \in SliderInputs : handleFontSlider(value)
    \/ resetFontSize
    \/ updateFontDisplay
    \/ addBookmark
    \/ \E i \in 1..MaxBookmarks : ClickBookmark(i)
    \/ \E i \in 1..MaxBookmarks : DeleteBookmark(i)

AppSpec == AppInit /\ [][AppNext]_vars

\* The reader with extractAllText suspended at its awaits (part_001, lines
\* 48-49): between two source pages of one extraction the events of the page
\* run, and so do the steps of any other extraction that is under way.
Task(from) == [i |-> 1, from |-> from]

\* extractAllText, lines 44-48: the reset, then the first getPage is awaited.
ExtractBegin ==
    /\ pc = "extract"
    /\ extractedText' = <<>>
    /\ tasks' = Append(tasks, Task(caller))
    /\ pc' = "idle"
    /\ caller' = "none"
    /\ UNCHANGED <<pdfDoc, currentPage, totalPages, totalScreenPages, currentScreenPage,
                   currentBookId, paginatedContent, fontSize, lineHeight, viewVars,
                   frameVars, appVars, markVars, firstRun, recording, shownOffset, beforeEnd, navigated,
                   probeVars>>

\* extractAllText, lines 49-74: the text of source page i arrives and is
\* pushed; after the last page renderTextContent goes on to paginateContent
\* (lines 244-248) for the caller that was waiting.
ExtractPage(k) ==
    /\ Resting
    /\ k \in 1..Len(tasks)
    /\ tasks[k].i <= totalPages
    /\ LET t == tasks[k]
           pageText == CleanPageText(pdfDoc[t.i])
       IN  /\ extractedText' = IF Len(pageText) > MinBlockLength
                                THEN Append(extractedText, pageText)
                                ELSE extractedText
           /\ IF t.i + 1 <= totalPages
              THEN /\ tasks' = [tasks EXCEPT ![k].i = t.i + 1]
                   /\ UNCHANGED <<pc, caller>>
              ELSE /\ tasks' = SubSeq(tasks, 1, k - 1) \o SubSeq(tasks, k + 1, Len(tasks))
                   /\ pc' = "paginate"
                   /\ caller' = t.from
    /\ UNCHANGED <<pdfDoc, currentPage, totalPages, totalScreenPages, currentScreenPage,
                   currentBookId, paginatedContent, fontSize, lineHeight, viewVars,
                   frameVars, appVars, markVars, firstRun, recording, shownOffset, beforeEnd, navigated,
                   probeVars>>

\* switchView('reader') (app.js, line 278) has run for the open book: the
\* controls of the reader can be used.
ReaderShown == currentBook # NoBook /\ \A k \in 1..Len(tasks) : tasks[k].from # "openBook"

\* An event that renders may start one more extraction.
CanRender == extractedText # <<>> \/ Len(tasks) < MaxTasks

AsyncNext ==
    \/ \E bookId \in DOMAIN Library : Len(tasks) < MaxTasks /\ OpenBook(bookId)
    \/ ExtractBegin
    \/ \E k \in 1..MaxTasks : ExtractPage(k)
    \/ PaginateBegin
    \/ ParagraphStep
    \/ SplitIter
    \/ SplitExit
    \/ PaginateEnd
    \/ OpenBookDone
    \/ CanRender /\ RestoreTimer
    \/ SaveProgress
    \/ CanRender /\ NextPage
    \/ CanRender /\ PrevPage
    \/ ReaderShown /\ BackToLibrary
    \/ \E delta \in ZoomInputs : ReaderShown /\ CanRender /\ adjustFontSize(delta)
    \/ updateFontDisplay

AsyncSpec == AppInit /\ [][AsyncNext]_vars

\* The handler driven through its navigation interface, one document after
\* another.
NavDocuments ==
    {<<RawLongWords, RawBody>>, <<RawLongWords>>, <<RawBody>>, <<RawPageNumber>>}
NavPageInputs == {-1, 2, 9}

\* loadPDF (lines 29-40), as processFile calls it (app.js, line 216)
LoadPDF(doc) ==
    /\ Resting
    /\ currentBookId' = NoBook
    /\ extractedText' = <<>>
    /\ paginatedContent' = <<>>
    /\ currentScreenPage' = 1
    /\ pdfDoc' = doc
    /\ totalPages' = Len(doc)
    /\ pc' = "idle"
    /\ UNCHANGED <<currentPage, totalScreenPages, fontSize, lineHeight, viewVars, caller,
                   frameVars, appVars, markVars, runVars>>

\* setReadingMode (lines 390-395)
SetReadingMode ==
    /\ Resting
    /\ pdfDoc # NoDoc
    /\ paginatedContent' = <<>>
    /\ currentScreenPage' = 1
    /\ pc' = RenderEntry(extractedText)
    /\ caller' = "none"
    /\ UNCHANGED <<pdfDoc, currentPage, totalPages, totalScreenPages, currentBookId,
                   extractedText, fontSize, lineHeight, viewVars, frameVars, appVars,
                   markVars, runVars>>

NavInit ==
    /\ HandlerState(NoDoc, NoBook)
    /\ clientWidth = 300 /\ clientHeight = 480
    /\ AppState(<<>>)
    /\ recording = FALSE

NavNext ==
    \/ \E doc \in NavDocuments : LoadPDF(doc)
    \/ Render
    \/ ExtractAllText
    \/ PaginateBegin
    \/ ParagraphStep
    \/ SplitIter
    \/ SplitExit
    \/ PaginateEnd
    \/ SaveProgress
    \/ \E pageNum \in NavPageInputs : GoTo(pageNum)
    \/ NextPage
    \/ PrevPage
    \/ SetReadingMode
    \/ \E size \in FontSizeInputs : SetFontSize(size)

NavSpec == NavInit /\ [][NavNext]_vars

\* The stores behind the reader: two books, their bookmarks and notes, the
\* theme setting.
MaxNotes == 2
Themes == <<"light", "dark", "sepia">>
StoreLibrary == <<StoredBook(<<RawBody>>), StoredBook(<<RawTitle, RawBody>>)>>

\* The index 'bookId' of a store, read with IDBKeyRange.only(bookId)
\* (storage.js, lines 144-146 and 157-159).
OfNoBook(record, bookId) == FALSE
OfBook(record, bookId) == record.bookId = bookId

\* A cursor that deletes every record it visits (storage.js, lines 148-154
\* and 161-167).
RECURSIVE DeleteOfBook(_, _)
DeleteOfBook(records, bookId) ==
    IF records = <<>> THEN <<>>
    ELSE (IF OfBook(records[1], bookId) THEN <<>> ELSE <<records[1]>>)
         \o DeleteOfBook(Tail(records), bookId)

\* store.delete(key) on the books store (storage.js, line 141)
DeleteKey(store, key) == [k \in DOMAIN store \ {key} |-> store[k]]

\* Storage.deleteBook (storage.js, lines 136-172): the three requests of its
\* transaction take effect together when the transaction completes, and not
\* at all when it fails.
deleteBook(db, bookId, completes) ==
    IF completes
    THEN [books |-> DeleteKey(db.books, bookId),
          bookmarks |-> DeleteOfBook(db.bookmarks, bookId),
          notes |-> DeleteOfBook(db.notes, bookId),
          settings |-> db.settings]
    ELSE db

Database == [books |-> books, bookmarks |-> bookmarks, notes |-> notes, settings |-> settings]

\* The delete button of a book card (app.js, lines 166-169 and 294-299)
DeleteBook(bookId, completes) ==
    /\ Resting
    /\ currentBook = NoBook
    /\ bookId \in DOMAIN books
    /\ LET db == deleteBook(Database, bookId, completes)
       IN  /\ books' = db.books
           /\ bookmarks' = db.bookmarks
           /\ notes' = db.notes
           /\ settings' = db.settings
    /\ UNCHANGED <<handlerVars, viewVars, pc, caller, frameVars, currentBook, pendingGoTo,
                   markVars, runVars>>

\* An id no stored note has (generateId, storage.js, lines 55-57).
FreshNoteId == SetMin((1..(Len(notes) + 1)) \ {notes[i].id : i \in 1..Len(notes)})

\* saveNote (app.js, lines 523-535) and Storage.addNote (storage.js, lines
\* 226-243)
saveNote ==
    /\ Resting
    /\ currentBook # NoBook
    /\ Len(notes) < MaxNotes
    /\ notes' = Append(notes, [id |-> FreshNoteId, bookId |-> currentBook,
                               page |-> currentScreenPage])
    /\ UNCHANGED <<handlerVars, viewVars, pc, caller, frameVars, currentBook, books,
                   bookmarks, pendingGoTo, settings, markVars, runVars>>

\* Storage.setSetting (storage.js, lines 286-296)
setSetting(store, key, value) ==
    [k \in DOMAIN store \cup {key} |-> IF k = key THEN value ELSE store[k]]

\* Themes.cycleTheme and setTheme (part_002, lines 35-46); the current theme
\* is the saved one, 'light' when none is saved.
cycleTheme ==
    LET currentTheme == IF "theme" \in DOMAIN settings THEN settings["theme"] ELSE "light"
        index == CHOOSE i \in 1..Len(Themes) : Themes[i] = currentTheme
    IN  /\ settings' = setSetting(settings, "theme", Themes[(index % Len(Themes)) + 1])
        /\ UNCHANGED <<handlerVars, viewVars, pc, caller, frameVars, currentBook, books,
                       bookmarks, pendingGoTo, notes, markVars, runVars>>

StoreInit ==
    /\ HandlerState(NoDoc, NoBook)
    /\ clientWidth = 300 /\ clientHeight = 480
    /\ AppState(StoreLibrary)
    /\ recording = FALSE

StoreNext ==
    \/ \E bookId \in DOMAIN StoreLibrary : OpenBook(bookId)
    \/ ExtractAllText
    \/ PaginateBegin
    \/ ParagraphStep
    \/ PaginateEnd
    \/ OpenBookDone
    \/ BackToLibrary
    \/ addBookmark
    \/ saveNote
    \/ cycleTheme
    \/ \E bookId \in DOMAIN StoreLibrary, completes \in BOOLEAN : DeleteBook(bookId, completes)

StoreSpec == StoreInit /\ [][StoreNext]_vars

\* The reader over a library of one book that can be deleted, and a file
\* whose import has loaded it without a book id.
ImportedFiles == {<<RawBody>>}

SaveNext ==
    \/ \E bookId \in DOMAIN Library : OpenBook(bookId)
    \/ \E doc \in ImportedFiles : LoadPDF(doc)
    \/ ExtractAllText
    \/ PaginateBegin
    \/ ParagraphStep
    \/ SplitIter
    \/ SplitExit
    \/ PaginateEnd
    \/ OpenBookDone
    \/ RestoreTimer
    \/ SaveProgress
    \/ NextPage
    \/ PrevPage
    \/ BackToLibrary
    \/ \E bookId \in DOMAIN Library, completes \in BOOLEAN : DeleteBook(bookId, completes)

SaveSpec == AppInit /\ [][SaveNext]_vars

\* The font controls of the reader (app.js, lines 78-81) over a book opened
\* at its first page (openBook arms no timer), with every kind of value the
\* slider can hand over: below the range, inside it, above it.
FontSliderInputs == {5, 13, 40}

FontNext ==
    \/ \E bookId \in DOMAIN Library : OpenBook(bookId)
    \/ ExtractAllText
    \/ PaginateBegin
    \/ ParagraphStep
    \/ SplitIter
    \/ SplitExit
    \/ PaginateEnd
    \/ OpenBookDone
    \/ \E delta \in ZoomInputs : RenderWithFont(fontSize + delta)
    \/ \E value \in FontSliderInputs : RenderWithFont(value)
    \/ RenderWithFont(DefaultFontSize)
    \/ updateFontDisplay

FontSpec == AppInit /\ [][FontNext]_vars

\* The earlier revision of the handler (src/unnamed/part_000): pages are
\* arrays of strings, there are no offsets, and the budget has no floor.
EarlierMinPageLength == 10
EarlierViewports == {<<300, 100>>, <<300, 160>>, <<300, 480>>}

\* part_000, line 88: charsPerLine * linesPerPage * 0.85, in units of 1/Scale
EarlierCharsPerPage(clientW, clientH, fs, lh) == ComputedBudget(clientW, clientH, fs, lh)

\* part_000, line 96: fullText.split('\n\n').filter(p => p.trim())
EarlierParagraphs(blocks) ==
    SelectSeq(SplitOn(FullText(blocks), ParagraphDelimiter), LAMBDA p : Trim(p) # <<>>)

\* part_000, lines 136-158: one iteration of the split loop.
EarlierSplitStep(rem, cpp) ==
    LET breakPoint == BreakPoint(rem, cpp)
        chunk == Trim(Substring(rem, 0, Trunc(breakPoint)))
    IN  [pages |-> IF chunk # <<>> THEN <<(<<chunk>>)>> ELSE <<>>,
         remaining |-> Trim(Substring(rem, Trunc(breakPoint), Len(rem)))]

\* part_000, lines 173-176: page.join(' ').trim().length > 10
EarlierKeepPage(page) == Len(Trim(Join(page, <<" ">>))) > EarlierMinPageLength

\* part_000, lines 80-107: the budget, the reset, the paragraphs.
EarlierPaginateBegin ==
    /\ pc = "paginate"
    /\ charsPerPage' = EarlierCharsPerPage(clientWidth, clientHeight, fontSize, lineHeight)
    /\ paginatedContent' = <<>>
    /\ paragraphs' = EarlierParagraphs(extractedText)
    /\ paraIdx' = 1
    /\ currentPageContent' = <<>>
    /\ currentCharCount' = 0
    /\ pc' = "para"
    /\ UNCHANGED <<pdfDoc, currentPage, totalPages, totalScreenPages, currentScreenPage,
                   currentBookId, extractedText, fontSize, lineHeight, viewVars, caller,
                   searchIndex, currentPageOffsetStart, currentSplitStart, remaining,
                   appVars, markVars, runVars>>

\* part_000, lines 109-133 and 160-163: one paragraph of the loop, up to the
\* split loop if the paragraph is oversize.
EarlierParagraphStep ==
    /\ pc = "para"
    /\ paraIdx <= Len(paragraphs)
    /\ LET para == paragraphs[paraIdx]
           paraLength == Len(para)
           tb == isTitleText(Trim(para)) /\ currentPageContent # <<>>
           pages1 == IF tb THEN Append(paginatedContent, currentPageContent)
                     ELSE paginatedContent
           content1 == IF tb THEN <<>> ELSE currentPageContent
           count1 == IF tb THEN 0 ELSE currentCharCount
           ob == (count1 + paraLength) * Scale > charsPerPage /\ content1 # <<>>
           pages2 == IF ob THEN Append(pages1, content1) ELSE pages1
           content2 == IF ob THEN <<>> ELSE content1
           count2 == IF ob THEN 0 ELSE count1
           oversize == paraLength * Scale > charsPerPage
       IN  IF oversize
           THEN /\ paginatedContent' = IF content2 # <<>> THEN Append(pages2, content2)
                                       ELSE pages2
                /\ currentPageContent' = <<>>
                /\ currentCharCount' = 0
                /\ remaining' = para
                /\ paraIdx' = paraIdx
                /\ pc' = "split"
           ELSE /\ paginatedContent' = pages2
                /\ currentPageContent' = Append(content2, para)
                /\ currentCharCount' = count2 + paraLength + ParagraphSpacing
                /\ paraIdx' = paraIdx + 1
                /\ pc' = "para"
                /\ UNCHANGED remaining
    /\ UNCHANGED <<pdfDoc, currentPage, totalPages, totalScreenPages, currentScreenPage,
                   currentBookId, extractedText, fontSize, lineHeight, viewVars, caller,
                   charsPerPage, paragraphs, searchIndex, currentPageOffsetStart,
                   currentSplitStart, appVars, markVars, runVars>>

\* part_000, lines 136-158: one iteration of the split loop.
EarlierSplitIter ==
    /\ pc = "split"
    /\ Len(remaining) > 0
    /\ LET r == EarlierSplitStep(remaining, charsPerPage)
       IN  /\ paginatedContent' = paginatedContent \o r.pages
           /\ remaining' = r.remaining
    /\ UNCHANGED <<pdfDoc, currentPage, totalPages, totalScreenPages, currentScreenPage,
                   currentBookId, extractedText, fontSize, lineHeight, viewVars, pc,
                   caller, charsPerPage, paragraphs, searchIndex, paraIdx,
                   currentPageContent, currentPageOffsetStart, currentCharCount,
                   currentSplitStart, appVars, markVars, runVars>>

\* part_000, line 136: the split loop ends.
EarlierSplitExit ==
    /\ pc = "split"
    /\ Len(remaining) = 0
    /\ paraIdx' = paraIdx + 1
    /\ pc' = "para"
    /\ UNCHANGED <<handlerVars, viewVars, caller, charsPerPage, paragraphs, searchIndex,
                   currentPageContent, currentPageOffsetStart, currentCharCount,
                   currentSplitStart, remaining, appVars, markVars, runVars>>

\* part_000, lines 166-187: the last page, the filter, the clamp.
EarlierPaginateEnd ==
    /\ pc = "para"
    /\ paraIdx > Len(paragraphs)
    /\ LET flushed == IF currentPageContent # <<>>
                      THEN Append(paginatedContent, currentPageContent)
                      ELSE paginatedContent
           filtered == SelectSeq(flushed, EarlierKeepPage)
       IN  /\ paginatedContent' = filtered
           /\ totalScreenPages' = Len(filtered)
           /\ currentScreenPage' = ClampPage(currentScreenPage, Len(filtered))
    /\ pc' = "done"
    /\ caller' = "none"
    /\ FrameReset
    /\ UNCHANGED <<pdfDoc, currentPage, totalPages, currentBookId, extractedText,
                   fontSize, lineHeight, viewVars, appVars, markVars, runVars>>

EarlierInit ==
    /\ \E doc \in Documents : HandlerState(doc, NoBook)
    /\ \E v \in EarlierViewports : clientWidth = v[1] /\ clientHeight = v[2]
    /\ AppState(<<>>)
    /\ recording = FALSE

EarlierNext ==
    \/ Render
    \/ ExtractAllText
    \/ EarlierPaginateBegin
    \/ EarlierParagraphStep
    \/ EarlierSplitIter
    \/ EarlierSplitExit
    \/ EarlierPaginateEnd
    \/ \E size \in FontSizeInputs : SetFontSize(size)
    \/ \E v \in EarlierViewports : Resize(v[1], v[2])

EarlierSpec == EarlierInit /\ [][EarlierNext]_vars

\* ------------------------------------------------------------------ claims
InPagination == pc \in {"para", "split"}
TextLength == Len(FullText(extractedText))
LayoutBudget == CharsPerPage(clientWidth, clientHeight, fontSize, lineHeight)

\* The distance from an offset to a page's range [start, end]; 0 inside it.
RangeDistance(page, offset) ==
    IF offset < page.start THEN page.start - offset
    ELSE IF offset > page.end THEN offset - page.end
    ELSE 0

\* The integer offsets of the text, in units of 1/Scale.
TextOffsets == {o * Scale : o \in 0..(TextLength + 2)}

\* C1: paginateContent terminates under every layout: the budget in use is
\* never below 100 characters, every step of the paragraph loop moves on to
\* the next paragraph or enters the split loop, and every iteration of the
\* split loop shortens the remaining text.
C1_Terminates ==
    [][InPagination =>
          /\ charsPerPage >= MinCharsPerPage * Scale
          /\ paraIdx <= Len(paragraphs) + 1
          /\ \/ pc' = "done"
             \/ paraIdx' = paraIdx + 1
             \/ pc = "para" /\ pc' = "split" /\ paraIdx' = paraIdx
             \/ /\ pc = "split" /\ pc' = "split" /\ paraIdx' = paraIdx
                /\ Len(remaining') < Len(remaining)]_vars

\* C1 witness: the split loop has produced chunks under a viewport whose
\* computed budget is at most one character.
C1_Witness ==
    /\ pc = "split"
    /\ ComputedBudget(clientWidth, clientHeight, fontSize, lineHeight) <= Scale
    /\ Len(paginatedContent) >= 2
    /\ Len(remaining) > 0

\* C2: a bookmark created while a page is displayed under one font size and
\* clicked under another navigates to the page that holds the content of the
\* bookmarked page: once the click's render is over, the offset at which the
\* bookmarked page started lies in the range of the page displayed.
C2_BookmarkFollowsContent ==
    (/\ pc = "progress"
     /\ caller = "bookmark"
     /\ clicked # 0
     /\ anchors[clicked].offset # NoOffset
     /\ anchors[clicked].fontSize # fontSize) =>
        /\ currentScreenPage \in 1..Len(paginatedContent)
        /\ anchors[clicked].offset >= paginatedContent[currentScreenPage].start
        /\ anchors[clicked].offset <= paginatedContent[currentScreenPage].end

\* C3: whenever findPageForOffset returns a page for an offset, no other page
\* of the list has a range nearer to the offset.
C3_NearestRange ==
    pc = "done" =>
        \A o \in TextOffsets :
            LET p == findPageForOffset(paginatedContent, o)
            IN  p # -1 =>
                    \A q \in 1..Len(paginatedContent) :
                        RangeDistance(paginatedContent[q], o)
                            >= RangeDistance(paginatedContent[p], o)

\* C4: the page ranges cover the text: the first page starts at 0, the last
\* page's end reaches the end of the text, and consecutive pages are at most
\* the paragraph delimiter apart.
C4_Coverage ==
    (pc = "done" /\ TextLength > 0) =>
        /\ paginatedContent # <<>>
        /\ paginatedContent[1].start = 0
        /\ paginatedContent[Len(paginatedContent)].end >= TextLength * Scale
        /\ \A i \in 1..(Len(paginatedContent) - 1) :
               paginatedContent[i + 1].start - paginatedContent[i].end
                   <= Len(ParagraphDelimiter) * Scale

\* C5: every chunk of a split oversize paragraph has at most charsPerPage
\* characters (as has every paragraph that was not split).
C5_ChunkWithinBudget ==
    InPagination =>
        \A i \in 1..Len(paginatedContent) :
            \A j \in 1..Len(paginatedContent[i].content) :
                Len(paginatedContent[i].content[j]) * Scale <= charsPerPage

\* C6: a page's start is the position of its first content element in the
\* concatenated text.
C6_StartIsTruePosition ==
    pc = "done" =>
        \A i \in 1..Len(paginatedContent) :
            LET page == paginatedContent[i]
                at == Trunc(page.start)
            IN  /\ page.start = at * Scale
                /\ Substring(FullText(extractedText), at, at + Len(page.content[1]))
                       = page.content[1]

C8_TitleFirst ==
    /\ \A i \in 1..Len(paginatedContent) :
           \A j \in 2..Len(paginatedContent[i].content) :
               ~isTitleText(paginatedContent[i].content[j])
    /\ \A j \in 2..Len(currentPageContent) : ~isTitleText(currentPageContent[j])

\* C8 witness: a title opens a page although it would have fitted, under the
\* budget, on the page before it.
C8_Witness ==
    /\ pc = "done"
    /\ \E i \in 2..Len(paginatedContent) :
           /\ isTitleText(paginatedContent[i].content[1])
           /\ Len(paginatedContent[i - 1].content) = 1
           /\ (Len(paginatedContent[i - 1].content[1]) + ParagraphSpacing
                   + Len(paginatedContent[i].content[1])) * Scale <= LayoutBudget

\* C9: a chunk of a split oversize paragraph shares its page with nothing:
\* the accumulator is empty while the split loop runs and when it ends, what
\* was accumulated before is flushed as a page of its own, and every page
\* the split loop adds holds exactly one content element.
C9_ChunkAlone ==
    [][/\ pc' = "split" => currentPageContent' = <<>>
       /\ pc = "split" =>
              /\ currentPageContent' = <<>>
              /\ Len(paginatedContent') >= Len(paginatedContent)
              /\ SubSeq(paginatedContent', 1, Len(paginatedContent)) = paginatedContent
              /\ \A i \in (Len(paginatedContent) + 1)..Len(paginatedContent') :
                     Len(paginatedContent'[i].content) = 1
       /\ (pc = "para" /\ pc' = "split" /\ currentPageContent # <<>>) =>
              /\ Len(paginatedContent') = Len(paginatedContent) + 1
              /\ paginatedContent'[Len(paginatedContent')].content = currentPageContent
      ]_vars

\* C9 witness: the split loop starts right after accumulated content was
\* flushed to the page before the first chunk.
C9_Witness ==
    /\ pc = "split"
    /\ remaining # <<>>
    /\ currentSplitStart > paragraphs[paraIdx].start * Scale
    /\ \E i \in 1..(Len(paginatedContent) - 1) :
           /\ paginatedContent[i].end = (paragraphs[paraIdx].start - 1) * Scale
           /\ paginatedContent[i + 1].start = paragraphs[paraIdx].start * Scale

\* The layout of the current state is that of the first run.
SameInputs ==
    /\ firstRun # NoRun
    /\ firstRun.text = extractedText
    /\ firstRun.width = clientWidth
    /\ firstRun.height = clientHeight
    /\ firstRun.fontSize = fontSize
    /\ firstRun.lineHeight = lineHeight

\* C10: a run of paginateContent on the extracted text, viewport, font size
\* and line height of the first run leaves the page list of the first run,
\* whatever the current page index and whatever ran in between.
C10_Deterministic ==
    (pc \in {"done", "progress"} /\ SameInputs) => paginatedContent = firstRun.pages

\* C10 witness: a later run under the layout of the first run, started by
\* goToPage from another current page index, over a list of three pages or
\* more.
C10_Witness ==
    /\ pc = "progress"
    /\ SameInputs
    /\ Len(firstRun.pages) >= 3
    /\ currentScreenPage # firstRun.index
    /\ paginatedContent = firstRun.pages

\* The reference locator: the first page whose range holds the offset, else
\* the lowest-index page whose start is nearest if it is nearer than the
\* tolerance, else -1; -1 for a negative or missing offset.
ReferenceLocator(pages, arg) ==
    IF ~arg.defined THEN -1
    ELSE IF arg.value < 0 \/ pages = <<>> THEN -1
    ELSE LET o == arg.value
             holding == {i \in 1..Len(pages) : pages[i].start <= o /\ o <= pages[i].end}
             nearest == {i \in 1..Len(pages) :
                            \A j \in 1..Len(pages) :
                                Abs(pages[i].start - o) <= Abs(pages[j].start - o)}
         IN  IF holding # {} THEN SetMin(holding)
             ELSE IF Abs(pages[SetMin(nearest)].start - o) < LocatorTolerance * Scale
                  THEN SetMin(nearest)
             ELSE -1

\* C11: findPageForOffset returns what the reference locator returns, on
\* every page list and for every offset argument.
C11_MatchesReference ==
    call.fn = "findPageForOffset" =>
        result = ReferenceLocator(paginatedContent, call.offset)

\* C11 witness: no page holds the offset, two pages start equally far from
\* it, and the earlier one is returned.
C11_Witness ==
    /\ call.fn = "findPageForOffset"
    /\ call.offset.defined
    /\ Len(paginatedContent) = 2
    /\ \A i \in 1..2 : call.offset.value > paginatedContent[i].end
                           \/ call.offset.value < paginatedContent[i].start
    /\ Abs(paginatedContent[1].start - call.offset.value)
           = Abs(paginatedContent[2].start - call.offset.value)
    /\ result = 1

\* Text t contains text n.
Contains(t, n) == \E k \in 1..(Len(t) - Len(n) + 1) : SubSeq(t, k, k + Len(n) - 1) = n

\* The reference content locator, on whitespace-normalised texts.
ReferenceContent(pages, snippet) ==
    LET normal == Trim(CollapseSpaces(snippet))
        matching == {i \in 1..Len(pages) :
                        Contains(CollapseSpaces(Join(pages[i].content, <<" ">>)), normal)}
    IN  IF snippet = <<>> \/ Len(normal) < MinSnippetLength \/ matching = {} THEN -1
        ELSE SetMin(matching)

\* C12: findPageForContent returns the first page whose normalised joined
\* content contains the normalised snippet, and -1 if there is none, if the
\* snippet is empty or if the normalised snippet is shorter than 10.
C12_FirstContaining ==
    call.fn = "findPageForContent" =>
        result = ReferenceContent(paginatedContent, call.snippet)

\* C12 witness: a snippet that normalisation changes is found on the second
\* page of a list, whose first page does not contain it.
C12_Witness ==
    /\ call.fn = "findPageForContent"
    /\ Trim(CollapseSpaces(call.snippet)) # call.snippet
    /\ result = 2

\* The Title rule: of the letters more than 70% are uppercase, and the text
\* is shorter than 100 characters.
ReferenceTitle(text) ==
    /\ Len(SelectSeq(text, IsUpper)) * 10 > 7 * Len(SelectSeq(text, IsLetter))
    /\ Len(text) < TitleMaxLength

\* C19: isTitleText classifies a text as Title exactly when the Title rule
\* holds of it, texts of one or two letters included.
C19_TitleRule ==
    call.fn = "isTitleText" => (result = 1 <=> ReferenceTitle(call.text))

\* C13: once paginateContent has completed on a document none of whose source
\* pages survives extraction, the page list is empty, the page count is zero,
\* and findPageForOffset and findPageForContent return -1 for every argument.
C13_EmptyDocument ==
    (pc = "done" /\ Concat(ExtractedBlocks(pdfDoc)) = <<>>) =>
        /\ paginatedContent = <<>>
        /\ totalScreenPages = 0
        /\ \A arg \in OffsetInputs : findPageForOffsetOf(paginatedContent, arg) = -1
        /\ \A snippet \in SnippetInputs : findPageForContent(paginatedContent, snippet) = -1

C13_Witness ==
    /\ pc = "done"
    /\ pdfDoc = <<RawPageNumber, RawPageNumber>>
    /\ extractedText = <<>>
    /\ paginatedContent = <<>>
    /\ fontSize # DefaultFontSize

\* C14: when the timer of openBook has brought the reader back to the saved
\* position of a book, under the layout the position was saved under, the
\* reader is on the virtual page goToPage was on when it saved the position.
C14_ProgressRoundTrip ==
    (pc = "progress" /\ caller = "restore" /\ navigated # 0) =>
        currentScreenPage = navigated

\* C15: the budget paginateContent computes is a positive whole number of
\* characters, and every start and end offset of a page is a whole number.
\* Numbers are kept in units of 1/Scale, so whole numbers are the multiples
\* of Scale.
C15_IntegerBudget ==
    /\ pc \in {"para", "split"} => charsPerPage > 0 /\ charsPerPage % Scale = 0
    /\ \A i \in 1..Len(paginatedContent) :
           /\ paginatedContent[i].start % Scale = 0
           /\ paginatedContent[i].end % Scale = 0

\* C16: when no extraction is suspended and no render or timer is pending,
\* the extracted text is the text of every surviving source page of the
\* loaded document, once each and in source order.
C16_ExtractedOnce ==
    (tasks = <<>> /\ pc = "done" /\ pendingGoTo = 0 /\ pdfDoc # NoDoc) =>
        extractedText = ExtractedBlocks(pdfDoc)

\* C17: once a render has completed, the current page index is within 1..N
\* when the page list has N >= 1 pages and is 1 when the list is empty; when
\* the index the pagination found was above N >= 1, the index is N.
Completed == pc \in {"done", "progress", "opened"}

C17_IndexInRange ==
    Completed =>
        LET N == Len(paginatedContent)
        IN  /\ totalScreenPages = N
            /\ N >= 1 => currentScreenPage \in 1..N
            /\ N = 0 => currentScreenPage = 1
            /\ (N >= 1 /\ beforeEnd.index > N) => currentScreenPage = N

C17_Witness ==
    /\ pc = "done"
    /\ Len(paginatedContent) >= 2
    /\ beforeEnd.index > Len(paginatedContent)
    /\ currentScreenPage = Len(paginatedContent)

\* C18: the page list a completed pagination leaves is the list it had before
\* the filter without the pages whose joined content is 5 characters or
\* fewer: every other page is there, and in the order it had.
Long(pages) == {i \in 1..Len(pages) : Len(Concat(pages[i].content)) > 5}
Nth(indices, j) == CHOOSE i \in indices : Cardinality({k \in indices : k < i}) = j - 1

C18_FilterExact ==
    Completed =>
        /\ Len(paginatedContent) = Cardinality(Long(beforeEnd.pages))
        /\ \A j \in 1..Len(paginatedContent) :
               paginatedContent[j] = beforeEnd.pages[Nth(Long(beforeEnd.pages), j)]

\* C18 witness: a page of 1 to 5 characters was dropped from between two
\* pages that were kept.
C18_Witness ==
    /\ pc = "done"
    /\ \E i \in 2..(Len(beforeEnd.pages) - 1) :
           /\ i \notin Long(beforeEnd.pages)
           /\ Len(Concat(beforeEnd.pages[i].content)) > 0
           /\ i - 1 \in Long(beforeEnd.pages)
           /\ i + 1 \in Long(beforeEnd.pages)
    /\ Len(paginatedContent) = Len(beforeEnd.pages) - 1

\* C20: when the extracted text is one paragraph without a space that is
\* longer than the budget, the split loop makes ceil(L / charsPerPage) chunk
\* pages out of it, each of exactly charsPerPage characters except possibly
\* the last.  The chunk pages are the pages before the final filter.
Solid(text) == \A i \in 1..Len(text) : text[i] # " "
LayoutChars == CharsPerPage(clientWidth, clientHeight, fontSize, lineHeight)
CeilDiv(a, b) == (a + b - 1) \div b

C20_SolidSplit ==
    (/\ pc = "done"
     /\ Len(extractedText) = 1
     /\ Solid(extractedText[1])
     /\ Len(extractedText[1]) * Scale > LayoutChars) =>
        LET chunks == beforeEnd.pages
            n == CeilDiv(Len(extractedText[1]) * Scale, LayoutChars)
        IN  /\ Len(chunks) = n
            /\ \A i \in 1..(Len(chunks) - 1) :
                   Len(Concat(chunks[i].content)) * Scale = LayoutChars

\* C21: while paginateContent runs, the extracted text holds the cleaned text
\* of exactly the source pages longer than 10 characters, in source order;
\* there is one paragraph per block, paragraph k starts at the sum of
\* (length + 2) over the blocks before it, and its text stands at that
\* offset of the aggregated text.
Surviving(doc) == {i \in 1..Len(doc) : Len(CleanPageText(doc[i])) > 10}
RECURSIVE BlockStart(_, _)
BlockStart(blocks, k) ==
    IF k = 1 THEN 0 ELSE BlockStart(blocks, k - 1) + Len(blocks[k - 1]) + 2

C21_ParagraphStarts ==
    pc \in {"para", "split"} =>
        /\ Len(extractedText) = Cardinality(Surviving(pdfDoc))
        /\ \A k \in 1..Len(extractedText) :
               extractedText[k] = CleanPageText(pdfDoc[Nth(Surviving(pdfDoc), k)])
        /\ Len(paragraphs) = Len(extractedText)
        /\ \A k \in 1..Len(paragraphs) :
               /\ paragraphs[k].text = extractedText[k]
               /\ paragraphs[k].start = BlockStart(extractedText, k)
               /\ Substring(FullText(extractedText), paragraphs[k].start,
                            paragraphs[k].start + paragraphs[k].length) = extractedText[k]

\* C21 witness: two blocks survive, and the second paragraph starts two
\* characters after the end of the first.
C21_Witness ==
    /\ pc = "para"
    /\ Len(paragraphs) = 2
    /\ paragraphs[1].text # paragraphs[2].text
    /\ paragraphs[2].start = paragraphs[1].length + 2

\* C22: when goToPage has rendered, it saves the progress if a book id is
\* loaded and there is at least one virtual page, and not if no book id is
\* loaded; whether the book is still stored or not, goToPage then completes,
\* and the current page index and the page list are those of the navigation.
\* A save that finds no book changes nothing in the store.
C22_SaveDoesNotBlock ==
    [][pc = "progress" =>
          /\ pc' = "done"
          /\ currentScreenPage' = currentScreenPage
          /\ paginatedContent' = paginatedContent
          /\ totalScreenPages' = totalScreenPages
          /\ (currentBookId # NoBook /\ Len(paginatedContent) >= 1) =>
                 /\ navigated' = currentScreenPage
                 /\ IF currentBookId \in DOMAIN books
                    THEN /\ DOMAIN books' = DOMAIN books
                         /\ books'[currentBookId].currentPage =
                                PdfPage(currentScreenPage, Len(paginatedContent), totalPages)
                    ELSE books' = books
          /\ currentBookId = NoBook => (navigated' = navigated /\ books' = books)
      ]_vars

\* C22 witness: goToPage has changed the page of a book that was deleted
\* from the store while it was loaded, and is about to save the progress.
C22_Witness ==
    /\ pc = "progress"
    /\ caller = "nextPage"
    /\ currentBookId # NoBook
    /\ currentBookId \notin DOMAIN books
    /\ currentScreenPage = 2
    /\ Len(paginatedContent) = 3

\* C23: in the earlier revision every iteration of the split loop shortens
\* the remaining text, under every viewport, so that paginateContent
\* terminates.
C23_EarlierSplitShortens ==
    (pc = "split" /\ Len(remaining) > 0) =>
        Len(EarlierSplitStep(remaining, charsPerPage).remaining) < Len(remaining)

\* C24: in the page list of a completed pagination, the start offset of
\* every page, which is what getCurrentPageOffset returns while the page is
\* current, is located on that page by findPageForOffset.
C24_OffsetRoundTrip ==
    pc = "done" =>
        \A i \in 1..Len(paginatedContent) :
            findPageForOffsetOf(paginatedContent,
                                Offset(getCurrentPageOffset(paginatedContent, i))) = i

\* C25: the content elements of the pages of a completed pagination, put
\* together in page order with the white space left out, are the extracted
\* text with the white space left out.
NoSpaces(text) == SelectSeq(text, LAMBDA c : ~IsSpace(c))
RECURSIVE PagesText(_)
PagesText(pages) ==
    IF pages = <<>> THEN <<>> ELSE Concat(pages[1].content) \o PagesText(Tail(pages))

C25_TextPreserved ==
    pc = "done" => NoSpaces(PagesText(paginatedContent)) = NoSpaces(Concat(extractedText))

\* C26: whenever no operation of the handler is in flight, getTotalPages
\* returns the length of the current page list.
C26_TotalIsListLength ==
    Resting => getTotalPages(totalScreenPages, totalPages) = Len(paginatedContent)

\* C27: when a font control of the reader has re-paginated, the page shown
\* is the page of the new list whose range holds the start offset of the
\* page that was shown when the font size was changed.
C27_SamePlaceAfterFontChange ==
    (pc = "fontDone" /\ shownOffset # NoOffset /\ paginatedContent # <<>>) =>
        /\ shownOffset >= paginatedContent[currentScreenPage].start
        /\ shownOffset <= paginatedContent[currentScreenPage].end

\* C28: a step that removes a book from the store removes that book alone,
\* removes exactly the bookmarks and the notes of that book and keeps the
\* others in their order, and leaves the settings as they are; a step that
\* removes no book removes no bookmark and no note.
Records(store) == {store[i] : i \in 1..Len(store)}

C28_DeleteBookFrame ==
    [][/\ \A id \in DOMAIN books :
              id \notin DOMAIN books' =>
                  /\ DOMAIN books' = DOMAIN books \ {id}
                  /\ \A other \in DOMAIN books' : books'[other] = books[other]
                  /\ bookmarks' = SelectSeq(bookmarks, LAMBDA r : r.bookId # id)
                  /\ notes' = SelectSeq(notes, LAMBDA r : r.bookId # id)
                  /\ settings' = settings
       /\ DOMAIN books' = DOMAIN books =>
              /\ Records(bookmarks) \subseteq Records(bookmarks')
              /\ Records(notes) \subseteq Records(notes')
      ]_vars

\* C28 witness: book 1 was deleted with its note (the note with id 1); the
\* note and the bookmark of book 2 and the theme setting are still stored.
C28_Witness ==
    /\ DOMAIN books = {2}
    /\ Len(notes) = 1 /\ notes[1].id = 2 /\ notes[1].bookId = 2
    /\ Len(bookmarks) = 1 /\ bookmarks[1].bookId = 2
    /\ "theme" \in DOMAIN settings

\* C29: nextPage acts only below the last page of the page list and prevPage
\* only above page 1, and the navigation each of them starts ends, when its
\* render has completed, one page after and one page before the page it
\* started from.
Turning == IF caller = "nextPage" THEN 1 ELSE IF caller = "prevPage" THEN -1 ELSE 0

C29_TurnsOnePage ==
    [][/\ (caller = "none" /\ caller' = "nextPage") =>
              /\ paginatedContent # <<>> => currentScreenPage < Len(paginatedContent)
              /\ currentScreenPage' = currentScreenPage + 1
       /\ (caller = "none" /\ caller' = "prevPage") =>
              /\ currentScreenPage > 1
              /\ currentScreenPage' = currentScreenPage - 1
       /\ (Turning # 0 /\ pc' = "progress" /\ pc # "progress") =>
              currentScreenPage' = currentScreenPage
      ]_vars

\* C30: the font size is always within [12, 32]; a font control sets it to
\* the size it asks for cut to that range, so that increasing at 32 and
\* decreasing at 12 leave it as it is, and it empties the page list.
C30_FontSizeInRange ==
    /\ [](fontSize \in MinFontSize..MaxFontSize)
    /\ [][(call' # call /\ call'.fn = "setFontSize") =>
              /\ paginatedContent' = <<>>
              /\ fontSize' = result'
              /\ call'.size \in MinFontSize..MaxFontSize => fontSize' = call'.size
              /\ call'.size < MinFontSize => fontSize' = MinFontSize
              /\ call'.size > MaxFontSize => fontSize' = MaxFontSize
              /\ (fontSize = MaxFontSize /\ call'.size = fontSize + 2) =>
                     fontSize' = fontSize
              /\ (fontSize = MinFontSize /\ call'.size = fontSize - 2) =>
                     fontSize' = fontSize
          ]_vars

\* C30 witness: the font size was increased at 32; it is 32, and the page
\* list is empty until the render that follows has paginated.
C30_Witness ==
    /\ call.fn = "setFontSize"
    /\ call.size = MaxFontSize + 2
    /\ fontSize = MaxFontSize
    /\ paginatedContent = <<>>
    /\ pc = "paginate"

====
